---- MODULE Spec2Model ----
(***************************************************************************)
(* A model of the storyboard application of src/index.tsx: the bounded     *)
(* task queue (RequestQueue), the scene list and its image-generation      *)
(* jobs, and the video export (handleExportVideo / recordVideo) down to    *)
(* the frames of its render loop.                                          *)
(*                                                                         *)
(* The browser runs one handler, promise continuation or timer callback at *)
(* a time, so every action below is one such run-to-completion step: the   *)
(* code between two awaits, with every call it makes.  React state is      *)
(* modelled as updated at the setState call.                               *)
(***************************************************************************)
EXTENDS Integers, Sequences, FiniteSets, TLC

VARIABLES
    \* RequestQueue (imageGenQueue)
    queue,          \* RequestQueue.queue: the waiting tasks, as job numbers
    activeCount,    \* RequestQueue.activeCount
    \* the tasks handed to the queue (each add call makes one)
    jobScene,       \* jobScene[j]: the sceneId captured by task j's closure
    started,        \* log: job numbers in the order task() was called
    resolved,       \* jobs whose promise resolved (finally callback has run)
    rejected,       \* jobs whose promise rejected (finally callback has run)
    startView,      \* startView[j]: while job j runs, what its scene showed
                    \* when the job started
    answered,       \* answered[j]: generateContent calls of job j answered
                    \* (counted where the single calls are followed)
    \* AppContent state
    scenes,         \* useState scenes
    isAnalyzing,    \* useState isAnalyzing
    nextSceneId,    \* stands for Date.now() in handleAnalyze
    ttsProvider,    \* settings.ttsProvider
    ttsRate,        \* settings.ttsRate, a rational number
    draggedIndex,   \* useState draggedIndex: 0 for null, else a 1-based index
    \* handleExportVideo / recordVideo
    isExporting,    \* useState isExporting
    pc,             \* position of the latest handleExportVideo invocation
    updatedScenes,  \* its local updatedScenes
    acq,            \* acq[i]: state of the i-th callback of its Promise.all
    recIndex,       \* recordVideo's loop variable i (1-based; 0 outside it)
    alerts,         \* alert() calls made by the latest export invocation
    downloads,      \* a.click() calls made by the latest export invocation
    activeExports,  \* invocations between setIsExporting(true) and finally
    visited,        \* orchestrator states the latest invocation went through
    requested,      \* the scenes (id, image) of the list at the latest request
    error,          \* the error the latest invocation caught ("" if none)
    recorder,       \* recordVideo's MediaRecorder: none, recording, stopped
                    \* (stop() called), finalized (its stop event has come)
    recorded,       \* the scenes (id, image) whose frame loop was entered
    renderLog,      \* log of recordVideo's loop: source.start() calls, first
                    \* frames and loop ends, each with the scene's position
    \* recordVideo's loop body
    rate,           \* its local rate; <<>> outside the loop
    effectiveDuration, \* its local effectiveDuration (ms); <<>> outside
    elapsed,        \* elapsed of the latest loop iteration
    canvas,         \* the 2d context: scale of its transform, globalAlpha
    frame           \* what the latest loop iteration drew

queueVars  == <<queue, activeCount, jobScene, started, resolved, rejected,
                startView>>
callVars   == <<answered>>
appVars    == <<scenes, isAnalyzing, nextSceneId, ttsProvider, ttsRate,
                draggedIndex>>
exportVars == <<isExporting, pc, updatedScenes, acq, recIndex, alerts,
                downloads, activeExports, visited, requested, error,
                recorder, recorded, renderLog, rate, effectiveDuration>>
frameVars  == <<elapsed, canvas, frame>>
vars       == <<queueVars, appVars, exportVars, frameVars, callVars>>

----------------------------------------------------------------------------
(* Bounds of the model *)

MaxJobs == 5          \* add calls in one behaviour

MaxScenes == 2        \* scenes one analysis returns

MaxTextLen == 12      \* characters of an originalText in the render model

MaxTickDelay == 17    \* longest time (ms) from one loop iteration to the next

----------------------------------------------------------------------------
(* Helpers *)

Range(s) == {s[i] : i \in DOMAIN s}

Max(a, b) == IF a >= b THEN a ELSE b

\* JavaScript numbers that are not integers (rates, durations, scales,
\* opacities) are modelled as exact fractions in lowest terms, so that equal
\* numbers are equal values; floating-point rounding is left out.
RECURSIVE Gcd(_, _)
Gcd(a, b) == IF b = 0 THEN a ELSE Gcd(b, a % b)

Abs(n) == IF n < 0 THEN 0 - n ELSE n

\* n / d, for d > 0.
Rat(n, d) ==
    LET g == Gcd(Abs(n), d) IN [num |-> n \div g, den |-> d \div g]

\* Comparisons and sums go through the least common denominator, products
\* are reduced crosswise, to keep the intermediate integers small.
RatLt(a, b) ==
    LET g == Gcd(a.den, b.den)
    IN a.num * (b.den \div g) < b.num * (a.den \div g)

RatLe(a, b) ==
    LET g == Gcd(a.den, b.den)
    IN a.num * (b.den \div g) <= b.num * (a.den \div g)

RatAdd(a, b) ==
    LET g == Gcd(a.den, b.den)
    IN Rat(a.num * (b.den \div g) + b.num * (a.den \div g),
           (a.den \div g) * b.den)

RatSub(a, b) ==
    LET g == Gcd(a.den, b.den)
    IN Rat(a.num * (b.den \div g) - b.num * (a.den \div g),
           (a.den \div g) * b.den)

RatMul(a, b) ==
    LET g == Gcd(Abs(a.num), b.den)
        h == Gcd(Abs(b.num), a.den)
    IN Rat((a.num \div g) * (b.num \div h), (a.den \div h) * (b.den \div g))

\* a / b, for b > 0.
RatDiv(a, b) == RatMul(a, [num |-> b.den, den |-> b.num])

\* Math.min, Math.max
RatMin(a, b) == IF RatLt(b, a) THEN b ELSE a

RatMax(a, b) == IF RatLt(a, b) THEN b ELSE a

----------------------------------------------------------------------------
(* RequestQueue *)

maxConcurrent == 3

\* The part of the state a queue operation reads and writes, threaded through
\* the calls of one handler.
Machine == [queue |-> queue, activeCount |-> activeCount, started |-> started,
            jobScene |-> jobScene, scenes |-> scenes, startView |-> startView]

\* What the list shows of the scene with the given id: its images and its
\* selected index, or <<>> when no scene of the list has the id.
SceneView(ss, sceneId) ==
    IF \E i \in DOMAIN ss : ss[i].id = sceneId
    THEN LET i == CHOOSE k \in DOMAIN ss : ss[k].id = sceneId
         IN <<[images |-> ss[i].images,
               selectedImageIndex |-> ss[i].selectedImageIndex]>>
    ELSE <<>>

\* prev.map(s => s.id === sceneId ? { ...s, isGeneratingImages: flag } : s)
SetGenerating(ss, sceneId, flag) ==
    [i \in DOMAIN ss |->
        IF ss[i].id = sceneId THEN [ss[i] EXCEPT !.isGeneratingImages = flag]
        ELSE ss[i]]

\* task(): the call runs the async job body up to its first await, which is
\* the setScenes marking the job's scene as generating.
CallTask(m, j) ==
    [m EXCEPT !.started = Append(m.started, j),
              !.startView[j] = SceneView(m.scenes, m.jobScene[j]),
              !.scenes  = SetGenerating(m.scenes, m.jobScene[j], TRUE)]

ProcessOffByOne(m) ==
    IF m.activeCount > maxConcurrent \/ Len(m.queue) = 0 THEN m
    ELSE CallTask([m EXCEPT !.queue = Tail(m.queue),
                            !.activeCount = m.activeCount + 1],
                  Head(m.queue))

ProcessLifo(m) ==
    IF m.activeCount >= maxConcurrent \/ Len(m.queue) = 0 THEN m
    ELSE CallTask([m EXCEPT !.queue = SubSeq(m.queue, 1, Len(m.queue) - 1),
                            !.activeCount = m.activeCount + 1],
                  m.queue[Len(m.queue)])

ProcessSkipsLast(m) ==
    IF m.activeCount >= maxConcurrent \/ Len(m.queue) <= 1 THEN m
    ELSE CallTask([m EXCEPT !.queue = Tail(m.queue),
                            !.activeCount = m.activeCount + 1],
                  Head(m.queue))

\* RequestQueue.process
Process(m) ==
    IF m.activeCount >= maxConcurrent \/ Len(m.queue) = 0 THEN m
    ELSE CallTask([m EXCEPT !.queue = Tail(m.queue),
                            !.activeCount = m.activeCount + 1],
                  Head(m.queue))

QueueAddWithoutProcess(m, sceneId) ==
    [m EXCEPT !.jobScene = Append(m.jobScene, sceneId),
              !.queue = Append(m.queue, Len(m.jobScene) + 1)]

\* RequestQueue.add, of a task whose closure holds sceneId; the task gets the
\* next job number.
QueueAdd(m, sceneId) ==
    Process([m EXCEPT !.jobScene = Append(m.jobScene, sceneId),
                      !.queue = Append(m.queue, Len(m.jobScene) + 1)])

ReleaseWithoutProcess(m, ok) ==
    [m EXCEPT !.activeCount = m.activeCount - 1]

ReleaseOnSuccessOnly(m, ok) ==
    IF ok THEN Process([m EXCEPT !.activeCount = m.activeCount - 1])
    ELSE m

\* The callback given to task().finally: it runs when the task's promise
\* settles, whether it resolved (ok) or rejected.
Release(m, ok) ==
    Process([m EXCEPT !.activeCount = m.activeCount - 1])

Settled == resolved \cup rejected

\* Tasks that have been called and whose promise has not settled.
Running == Range(started) \ Settled

StartCount(j) == Cardinality({i \in DOMAIN started : started[i] = j})

\* Jobs started and not yet settled, counted from the logs.
RunningCount == Len(started) - Cardinality(Settled)

Added == 1 .. Len(jobScene)

SetMachine(m) ==
    /\ queue' = m.queue
    /\ activeCount' = m.activeCount
    /\ started' = m.started
    /\ jobScene' = m.jobScene
    /\ scenes' = m.scenes
    /\ startView' = m.startView

----------------------------------------------------------------------------
(* The queue on its own: add calls with tasks that touch no scene *)

\* imageGenQueue.add(task), for a task whose scene id (here an id not yet
\* given to any scene) matches no scene of the list.
Add ==
    /\ Len(jobScene) < MaxJobs
    /\ SetMachine(QueueAdd(Machine, nextSceneId))
    /\ UNCHANGED <<resolved, rejected>>
    /\ UNCHANGED <<isAnalyzing, nextSceneId, ttsProvider, ttsRate, draggedIndex>>
    /\ UNCHANGED <<exportVars, frameVars, callVars>>

\* Task j's promise settles and the finally callback runs.
TaskSettle(j, ok) ==
    /\ j \in Running
    /\ resolved' = IF ok THEN resolved \cup {j} ELSE resolved
    /\ rejected' = IF ok THEN rejected ELSE rejected \cup {j}
    /\ SetMachine(Release([Machine EXCEPT !.startView[j] = <<>>], ok))
    /\ UNCHANGED <<isAnalyzing, nextSceneId, ttsProvider, ttsRate, draggedIndex>>
    /\ UNCHANGED <<exportVars, frameVars, callVars>>

\* canvas.getContext('2d'): the identity transform, globalAlpha 1.
NewCanvas == [scale |-> Rat(1, 1), globalAlpha |-> Rat(1, 1)]

InitQueueVars ==
    /\ queue = <<>>
    /\ activeCount = 0
    /\ jobScene = <<>>
    /\ started = <<>>
    /\ resolved = {}
    /\ rejected = {}
    /\ startView = [j \in 1 .. MaxJobs |-> <<>>]
    /\ answered = [j \in 1 .. MaxJobs |-> 0]

InitExportVars ==
    /\ isExporting = FALSE
    /\ pc = "idle"
    /\ updatedScenes = <<>>
    /\ acq = <<>>
    /\ recIndex = 0
    /\ alerts = 0
    /\ downloads = 0
    /\ activeExports = 0
    /\ visited = <<"Idle">>
    /\ requested = <<>>
    /\ error = ""
    /\ recorder = "none"
    /\ recorded = <<>>
    /\ renderLog = <<>>
    /\ rate = <<>>
    /\ effectiveDuration = <<>>
    /\ elapsed = 0
    /\ canvas = NewCanvas
    /\ frame = <<>>

InitQueue ==
    /\ InitQueueVars
    /\ scenes = <<>>
    /\ isAnalyzing = FALSE
    /\ nextSceneId = 1
    /\ ttsProvider = "gemini"
    /\ ttsRate = Rat(1, 1)
    /\ draggedIndex = 0
    /\ InitExportVars

NextQueue ==
    \/ Add
    \/ \E j \in 1 .. MaxJobs, ok \in BOOLEAN : TaskSettle(j, ok)

SpecQueue == InitQueue /\ [][NextQueue]_vars

\* Every started task eventually settles.
SpecQueueFair ==
    /\ InitQueue
    /\ [][NextQueue]_vars
    /\ \A j \in 1 .. MaxJobs : WF_vars(\E ok \in BOOLEAN : TaskSettle(j, ok))

----------------------------------------------------------------------------
(* Claims about the queue *)

\* C1: the number of jobs started and not yet settled is never greater than
\* maxConcurrent (3), whatever the interleaving of add calls and settlements.
C1_AtMostMaxConcurrent == RunningCount <= maxConcurrent

\* C1 witness: three jobs run while a fourth waits for a slot.
C1_Witness == RunningCount = maxConcurrent /\ Len(queue) > 0

\* C2: if every started job eventually settles, every job passed to add is
\* eventually started, and no job is ever started more than once.
C2_EveryJobRunsOnce ==
    /\ \A j \in 1 .. MaxJobs : [](StartCount(j) <= 1)
    /\ \A j \in 1 .. MaxJobs : (j \in Added) ~> (StartCount(j) = 1)

\* C2 witness: more jobs than slots were added and each was started once.
C2_Witness ==
    /\ Len(jobScene) > maxConcurrent
    /\ \A j \in Added : StartCount(j) = 1

PositionIn(s, j) == CHOOSE i \in DOMAIN s : s[i] = j

\* C3: jobs are admitted in FIFO order: jobs are numbered in the order of
\* their add calls, and whenever a later job has been started, every earlier
\* job was started before it.
C3_FifoAdmission ==
    \A a \in Added, b \in Added :
        (a < b /\ b \in Range(started)) =>
            /\ a \in Range(started)
            /\ PositionIn(started, a) < PositionIn(started, b)

\* C3 witness: five jobs were started with only two settlements, so the
\* fourth and the fifth each took a slot that a settlement had freed.
C3_Witness ==
    /\ Len(started) = maxConcurrent + 2
    /\ Cardinality(Settled) = 2

\* C4: a rejected job releases its slot as a resolved one does (the counter
\* equals the number of jobs started and not settled, also after failures),
\* and every job waiting after a failure is subsequently started.
C4_FailureDoesNotStall ==
    /\ [](activeCount = RunningCount)
    /\ \A j \in 1 .. MaxJobs :
          (j \in Range(queue) /\ rejected # {}) ~> (j \in Range(started))

\* C4 witness: only failures have occurred, and a job beyond the first three
\* has been started in a slot a failed job released.
C4_Witness ==
    /\ rejected # {}
    /\ resolved = {}
    /\ Len(started) > maxConcurrent
    /\ queue = <<>>

----------------------------------------------------------------------------
(* Scenes and image generation *)

\* `ai`: the client made at module load; null only if its constructor threw.
ai == TRUE

\* One scene as handleAnalyze makes it.  images holds image references (the
\* number of the job that produced the image); audioDuration is <<>> while
\* undefined and <<ms>> once set; audioData tells whether the bytes are set.
NewScene(id, len) ==
    [id |-> id, textLen |-> len, images |-> <<>>, selectedImageIndex |-> 0,
     isGeneratingImages |-> FALSE, audioData |-> FALSE, audioDuration |-> <<>>]

\* The images one job collects from its four responses.
NewImages(j, n) == [k \in 1 .. n |-> j]

SetImagesOfEveryScene(ss, sceneId, imgs) ==
    [i \in DOMAIN ss |->
        [ss[i] EXCEPT !.images = imgs, !.isGeneratingImages = FALSE,
                      !.selectedImageIndex = 0]]

\* prev.map(s => s.id === sceneId ? { ...s, images: newImages,
\*                 isGeneratingImages: false, selectedImageIndex: 0 } : s)
SetImages(ss, sceneId, imgs) ==
    [i \in DOMAIN ss |->
        IF ss[i].id = sceneId
        THEN [ss[i] EXCEPT !.images = imgs, !.isGeneratingImages = FALSE,
                           !.selectedImageIndex = 0]
        ELSE ss[i]]

\* prev.map(s => s.id === scene.id ? { ...s, images: [] } : s)
ClearImages(ss, sceneId) ==
    [i \in DOMAIN ss |->
        IF ss[i].id = sceneId THEN [ss[i] EXCEPT !.images = <<>>] ELSE ss[i]]

\* prev.map(s => s.id === sid ? {...s, selectedImageIndex: imgIdx} : s)
SetSelected(ss, sceneId, imgIdx) ==
    [i \in DOMAIN ss |->
        IF ss[i].id = sceneId THEN [ss[i] EXCEPT !.selectedImageIndex = imgIdx]
        ELSE ss[i]]

\* triggerImageGeneration
TriggerImageGeneration(m, sceneId) ==
    IF ~ai THEN m ELSE QueueAdd(m, sceneId)

\* newScenes.forEach(s => triggerImageGeneration(s.id, ...))
RECURSIVE TriggerAll(_, _)
TriggerAll(m, ss) ==
    IF ss = <<>> THEN m
    ELSE TriggerAll(TriggerImageGeneration(m, Head(ss).id), Tail(ss))

\* The regenerate button of a scene card is disabled while the scene's flag
\* is set.
RegenerateDisabled(scene) == scene.isGeneratingImages

\* handleAnalyze up to its first await (the button is disabled while an
\* analysis runs).
AnalyzeStart ==
    /\ ai
    /\ ~isAnalyzing
    /\ isAnalyzing' = TRUE
    /\ scenes' = <<>>
    /\ UNCHANGED queueVars
    /\ UNCHANGED <<nextSceneId, ttsProvider, ttsRate, draggedIndex>>
    /\ UNCHANGED <<exportVars, frameVars, callVars>>

\* handleAnalyze after the model's answer: texts are the originalText lengths
\* of the parsed scenes.
AnalyzeDone(texts) ==
    /\ isAnalyzing
    /\ Len(jobScene) + Len(texts) <= MaxJobs
    /\ LET newScenes ==
               [i \in DOMAIN texts |-> NewScene(nextSceneId + i - 1, texts[i])]
       IN SetMachine(TriggerAll([Machine EXCEPT !.scenes = newScenes],
                                newScenes))
    /\ nextSceneId' = nextSceneId + Len(texts)
    /\ isAnalyzing' = FALSE
    /\ UNCHANGED <<resolved, rejected, ttsProvider, ttsRate, draggedIndex>>
    /\ UNCHANGED <<exportVars, frameVars, callVars>>

\* handleAnalyze when the request or the parse throws: alert, finally.
AnalyzeFail ==
    /\ isAnalyzing
    /\ isAnalyzing' = FALSE
    /\ UNCHANGED queueVars
    /\ UNCHANGED <<scenes, nextSceneId, ttsProvider, ttsRate, draggedIndex>>
    /\ UNCHANGED <<exportVars, frameVars, callVars>>

\* A generation job after its await: the four requests answered with n images
\* in all (ok), or one of them failed (the catch branch).  The async body
\* catches every error, so the task's promise resolves either way and the
\* queue's finally callback follows.  (With imageModel 'comfyui' the body has
\* no await: that is the case of this step following the start at once, with
\* four images.)
JobEnds(j, ok, n) ==
    /\ j \in Running
    /\ LET sid == jobScene[j]
           after == IF ok THEN SetImages(scenes, sid, NewImages(j, n))
                    ELSE SetGenerating(scenes, sid, FALSE)
       IN SetMachine(Release([Machine EXCEPT !.scenes = after,
                                             !.startView[j] = <<>>], TRUE))
    /\ resolved' = resolved \cup {j}
    /\ UNCHANGED <<rejected, isAnalyzing, nextSceneId>>
    /\ UNCHANGED <<ttsProvider, ttsRate, draggedIndex>>
    /\ UNCHANGED <<exportVars, frameVars>>

\* The end of a job as one step, for the specifications that do not follow
\* the single requests of a job.
JobSettle(j, ok, n) ==
    /\ JobEnds(j, ok, n)
    /\ UNCHANGED callVars

\* Array(4): the generateContent calls a job makes when it starts.
RequestsPerJob == 4

\* The calls of job j that are made and not yet answered.
OutstandingOf(j) ==
    IF j \in Range(started) THEN RequestsPerJob - answered[j] ELSE 0

\* One generateContent call of job j is answered.  Promise.all rejects at the
\* first failed call and resolves at the last answer if none failed; a call
\* answered after the job has ended changes nothing.  n is the number of
\* images the four responses hold.
CallAnswered(j, ok, n) ==
    /\ OutstandingOf(j) > 0
    /\ answered' = [answered EXCEPT ![j] = @ + 1]
    /\ IF j \in Running /\ (~ok \/ OutstandingOf(j) = 1)
       THEN JobEnds(j, ok, n)
       ELSE UNCHANGED <<queueVars, appVars, exportVars, frameVars>>

\* onSelectImage: a click on the image at 0-based index imgIdx of the card of
\* the scene at position i (the grid shows the images of the scene, unless
\* the scene is generating with no image).
SelectImage(i, imgIdx) ==
    /\ i \in DOMAIN scenes
    /\ imgIdx \in 0 .. Len(scenes[i].images) - 1
    /\ scenes' = SetSelected(scenes, scenes[i].id, imgIdx)
    /\ UNCHANGED queueVars
    /\ UNCHANGED <<isAnalyzing, nextSceneId, ttsProvider, ttsRate, draggedIndex>>
    /\ UNCHANGED <<exportVars, frameVars, callVars>>

\* handleRegenerateImages, from the regenerate button of the card at i.
Regenerate(i) ==
    /\ i \in DOMAIN scenes
    /\ ~RegenerateDisabled(scenes[i])
    /\ Len(jobScene) < MaxJobs
    /\ SetMachine(TriggerImageGeneration(
           [Machine EXCEPT !.scenes = ClearImages(scenes, scenes[i].id)],
           scenes[i].id))
    /\ UNCHANGED <<resolved, rejected, isAnalyzing, nextSceneId>>
    /\ UNCHANGED <<ttsProvider, ttsRate, draggedIndex>>
    /\ UNCHANGED <<exportVars, frameVars, callVars>>

\* onDragStart of the card at position i: setDraggedIndex(i).
DragStart(i) ==
    /\ i \in DOMAIN scenes
    /\ draggedIndex' = i
    /\ UNCHANGED queueVars
    /\ UNCHANGED <<scenes, isAnalyzing, nextSceneId, ttsProvider, ttsRate>>
    /\ UNCHANGED <<exportVars, frameVars, callVars>>

\* The value of an array element that does not exist.
Undefined == [undefined |-> TRUE]

\* [...scenes] with the item at d taken out (splice(d, 1)) and put in at t
\* (splice(t, 0, item)), for a position t of the list; beyond the end of the
\* list splice(d, 1) takes nothing out and item is undefined.
MoveItem(ss, d, t) ==
    LET item == IF d \in DOMAIN ss THEN ss[d] ELSE Undefined
        rest == SubSeq(ss, 1, d - 1) \o SubSeq(ss, d + 1, Len(ss))
    IN SubSeq(rest, 1, t - 1) \o <<item>> \o SubSeq(rest, t, Len(rest))

\* handleDrop, from onDrop of the card at position target.  The drop event
\* comes for whatever is dragged over the card; draggedIndex is what the
\* last onDragStart of a card left, if no drop has cleared it since.
Drop(target) ==
    /\ target \in DOMAIN scenes
    /\ IF draggedIndex = 0 \/ draggedIndex = target
       THEN UNCHANGED <<scenes, draggedIndex>>
       ELSE /\ scenes' = MoveItem(scenes, draggedIndex, target)
            /\ draggedIndex' = 0
    /\ UNCHANGED queueVars
    /\ UNCHANGED <<isAnalyzing, nextSceneId, ttsProvider, ttsRate>>
    /\ UNCHANGED <<exportVars, frameVars, callVars>>

\* handleReset, confirmed.
Reset ==
    /\ scenes' = <<>>
    /\ UNCHANGED queueVars
    /\ UNCHANGED <<isAnalyzing, nextSceneId, ttsProvider, ttsRate, draggedIndex>>
    /\ UNCHANGED <<exportVars, frameVars, callVars>>

----------------------------------------------------------------------------
(* Export: handleExportVideo and recordVideo *)

\* The state one step of an export reads and writes.
ExportMachine ==
    [isExporting |-> isExporting, pc |-> pc, updatedScenes |-> updatedScenes,
     acq |-> acq, recIndex |-> recIndex, alerts |-> alerts,
     downloads |-> downloads, activeExports |-> activeExports,
     visited |-> visited, scenes |-> scenes, requested |-> requested,
     error |-> error, recorder |-> recorder, recorded |-> recorded,
     renderLog |-> renderLog,
     rate |-> rate, effectiveDuration |-> effectiveDuration,
     elapsed |-> elapsed,
     canvas |-> canvas, frame |-> frame, ttsRate |-> ttsRate]

SetExportMachine(x) ==
    /\ isExporting' = x.isExporting
    /\ pc' = x.pc
    /\ updatedScenes' = x.updatedScenes
    /\ acq' = x.acq
    /\ recIndex' = x.recIndex
    /\ alerts' = x.alerts
    /\ downloads' = x.downloads
    /\ activeExports' = x.activeExports
    /\ visited' = x.visited
    /\ scenes' = x.scenes
    /\ requested' = x.requested
    /\ error' = x.error
    /\ recorder' = x.recorder
    /\ recorded' = x.recorded
    /\ renderLog' = x.renderLog
    /\ rate' = x.rate
    /\ effectiveDuration' = x.effectiveDuration
    /\ elapsed' = x.elapsed
    /\ canvas' = x.canvas
    /\ frame' = x.frame

ExportButtonNeverDisabled == FALSE

\* The export button: disabled={isExporting}.
ExportButtonDisabled == isExporting

EndExportFlagLeftOnFailure(x, failed) ==
    [x EXCEPT !.alerts = IF failed THEN @ + 1 ELSE @,
              !.isExporting = IF failed THEN @ ELSE FALSE,
              !.pc = IF failed THEN "failed" ELSE "done",
              !.activeExports = @ - 1,
              !.visited = Append(@, IF failed THEN "Failed" ELSE "Done"),
              !.updatedScenes = <<>>, !.acq = <<>>, !.recIndex = 0,
              !.rate = <<>>, !.effectiveDuration = <<>>]

\* The end of handleExportVideo: the catch block when an error was thrown
\* (failed), then the finally block; the locals are gone.
EndExport(x, failed) ==
    [x EXCEPT !.alerts = IF failed THEN @ + 1 ELSE @,
              !.isExporting = FALSE,
              !.pc = IF failed THEN "failed" ELSE "done",
              !.activeExports = @ - 1,
              !.visited = Append(@, IF failed THEN "Failed" ELSE "Done"),
              !.updatedScenes = <<>>, !.acq = <<>>, !.recIndex = 0,
              !.rate = <<>>, !.effectiveDuration = <<>>]

FallbackDurationNoFloor(len) == (IF len = 0 THEN 1 ELSE len) * 250

\* Math.max(2, (scene.originalText.length || 1) * 0.25), in milliseconds.
FallbackDurationMs(len) == Max(2000, (IF len = 0 THEN 1 ELSE len) * 250)

\* One callback of updatedScenes.map(async ...) up to its first await.
AcquireStatus(scene, provider) ==
    IF scene.audioData THEN "skipped"
    ELSE IF provider = "gemini" /\ ai THEN "pending"
    ELSE "estimated"

AcquireScene(scene, provider) ==
    IF AcquireStatus(scene, provider) = "estimated"
    THEN [scene EXCEPT !.audioDuration = <<FallbackDurationMs(scene.textLen)>>]
    ELSE scene

\* updatedScenes.map(async (scene, index) => ...): every callback runs to its
\* first await before Promise.all is awaited.
BeginAcquisition(x, provider) ==
    [x EXCEPT !.pc = "acquiring",
              !.acq = [i \in DOMAIN x.updatedScenes |->
                          AcquireStatus(x.updatedScenes[i], provider)],
              !.updatedScenes = [i \in DOMAIN x.updatedScenes |->
                          AcquireScene(x.updatedScenes[i], provider)]]

PromiseAnySettled(a) == \E i \in DOMAIN a : a[i] # "pending"

\* await Promise.all(...): no callback rejects (each catches its own errors),
\* so the await ends when every callback has returned.
PromiseAllResolved(a) == \A i \in DOMAIN a : a[i] # "pending"

ClampRateUpperOnly(r) == RatMin(r, Rat(4, 1))

\* Math.max(0.1, Math.min(settings.ttsRate, 4.0))
ClampRate(r) == RatMax(Rat(1, 10), RatMin(r, Rat(4, 1)))

\* (scene.audioDuration || 2) * 1000 / rate, in ms: the duration of a scene
\* without audio bytes (audioDuration is kept in ms in the model).
SilentDuration(scene, r) ==
    RatDiv(Rat(IF scene.audioDuration = <<>> \/ scene.audioDuration = <<0>>
               THEN 2000 ELSE scene.audioDuration[1], 1),
           r)

\* (buffer.duration / rate) * 1000, in ms, for a buffer of d ms.
AudioDuration(d, r) == RatDiv(Rat(d, 1), r)

\* One entry of loadedImages: null (<<>>) for a scene without images, else an
\* Image whose src is scene.images[scene.selectedImageIndex] (0 stands for
\* undefined, the src when the index is beyond the images).
LoadedImage(scene) ==
    IF Len(scene.images) = 0 THEN <<>>
    ELSE IF scene.selectedImageIndex + 1 \in DOMAIN scene.images
         THEN <<scene.images[scene.selectedImageIndex + 1]>>
         ELSE <<0>>

\* nextImg of the loop body for scene i
NextImage(ss, i) == IF i < Len(ss) THEN LoadedImage(ss[i + 1]) ELSE <<>>

CtxRestoreMissing(saved, current) == current

\* ctx.restore(): the state ctx.save() pushed comes back.
CtxRestore(saved, current) == saved

\* const progress = elapsed / effectiveDuration;
\* const scale = 1.0 + (0.08 * progress);
KenBurnsScale(e, total) ==
    RatAdd(Rat(1, 1), RatMul(Rat(8, 100), RatDiv(Rat(e, 1), total)))

\* effectiveDuration - elapsed < 500 && nextImg
CrossfadeActive(e, total, nextImg) ==
    RatLt(RatSub(total, Rat(e, 1)), Rat(500, 1)) /\ nextImg # <<>>

CrossfadeAlphaOfProgress(e, total) == RatDiv(Rat(e, 1), total)

\* 1 - ((effectiveDuration - elapsed) / 500)
CrossfadeAlpha(e, total) ==
    RatSub(Rat(1, 1), RatDiv(RatSub(total, Rat(e, 1)), Rat(500, 1)))

\* One iteration of the frame loop that does not break, at elapsed e: the
\* scene's image (or the grey fill) under the zoom, then the next scene's
\* image under the crossfade opacity.  frame records what was drawn: the
\* scale of the transform and the globalAlpha in force at each drawImage.
DrawFrame(x, e) ==
    LET total   == x.effectiveDuration
        img     == LoadedImage(x.updatedScenes[x.recIndex])
        nextImg == NextImage(x.updatedScenes, x.recIndex)
        saved   == x.canvas
        zoomed  == [saved EXCEPT !.scale = RatMul(@, KenBurnsScale(e, total))]
        back    == CtxRestore(saved, zoomed)
        fade    == CrossfadeActive(e, total, nextImg)
        faded   == [back EXCEPT !.globalAlpha = CrossfadeAlpha(e, total)]
    IN [x EXCEPT !.elapsed = e,
                 !.canvas = IF fade THEN CtxRestore(back, faded) ELSE back,
                 !.frame = [elapsed |-> e, img |-> img,
                            scale |-> zoomed.scale,
                            alpha |-> zoomed.globalAlpha,
                            next |-> IF fade THEN nextImg ELSE <<>>,
                            nextAlpha |-> IF fade THEN faded.globalAlpha
                                          ELSE Rat(0, 1)]]

\* One entry of the log: ev is "audioStart", "firstFrame" or "loopEnd"; at
\* is <<p, e>> for a loop that ended at elapsed e after an iteration at
\* elapsed p, and <<>> when the time is not followed.
LogEvent(x, ev, at) ==
    [x EXCEPT !.renderLog = Append(@, [ev |-> ev, scene |-> x.recIndex,
                                       at |-> at])]

StartSourceTwice(x) ==
    LogEvent(LogEvent(x, "audioStart", <<>>), "audioStart", <<>>)

\* source.start() of the current scene.
StartSource(x) == LogEvent(x, "audioStart", <<>>)

\* The loop body from the duration on: startTime is taken and the first
\* iteration runs at elapsed 0 (every duration of the model is positive, so
\* the first iteration draws).
BeginFrames(x, total) ==
    DrawFrame(LogEvent(
                  [x EXCEPT !.effectiveDuration = total,
                            !.pc = "frames",
                            !.recorded = Append(@,
                                [id |-> x.updatedScenes[x.recIndex].id,
                                 img |-> LoadedImage(
                                            x.updatedScenes[x.recIndex])])],
                  "firstFrame", <<>>),
              0)

\* recordVideo's loop body for scene i up to its first await: a scene with
\* audio bytes awaits their decoding, another draws its first frame.
EnterScene(x, i) ==
    LET y == [x EXCEPT !.recIndex = i, !.rate = ClampRate(x.ttsRate)]
    IN IF x.updatedScenes[i].audioData
       THEN [y EXCEPT !.pc = "decoding"]
       ELSE BeginFrames(y, SilentDuration(x.updatedScenes[i], y.rate))

\* handleExportVideo after the Promise.all: setScenes(updatedScenes), the
\* progress text of the render phase, then recordVideo up to its first await.
\* env is what the runtime offers: no MediaRecorder (throw), no 2d context of
\* the canvas (return), none of the three mime types supported (throw).
StartRecordingSilentWithoutCodec(x, env) ==
    LET y == [x EXCEPT !.scenes = x.updatedScenes,
                       !.visited = Append(@, "Rendering")]
    IN CASE env = "noMediaRecorder" ->
                EndExport([y EXCEPT !.error = "noMediaRecorder"], TRUE)
         [] env = "noCanvasContext" -> EndExport(y, FALSE)
         [] env = "noCodec"         -> EndExport(y, FALSE)
         [] OTHER                   ->
                [y EXCEPT !.canvas = NewCanvas, !.recorder = "recording",
                          !.pc = "loading"]

StartRecordingFromCurrentList(x, env) ==
    LET y == [x EXCEPT !.updatedScenes = x.scenes,
                       !.visited = Append(@, "Rendering")]
    IN CASE env = "noMediaRecorder" ->
                EndExport([y EXCEPT !.error = "noMediaRecorder"], TRUE)
         [] env = "noCanvasContext" -> EndExport(y, FALSE)
         [] env = "noCodec"         ->
                EndExport([y EXCEPT !.error = "noCodec"], TRUE)
         [] OTHER                   ->
                [y EXCEPT !.canvas = NewCanvas, !.recorder = "recording",
                          !.pc = "loading"]

StartRecording(x, env) ==
    LET y == [x EXCEPT !.scenes = x.updatedScenes,
                       !.visited = Append(@, "Rendering")]
    IN CASE env = "noMediaRecorder" ->
                EndExport([y EXCEPT !.error = "noMediaRecorder"], TRUE)
         [] env = "noCanvasContext" -> EndExport(y, FALSE)
         [] env = "noCodec"         ->
                EndExport([y EXCEPT !.error = "noCodec"], TRUE)
         [] OTHER                   ->
                [y EXCEPT !.canvas = NewCanvas, !.recorder = "recording",
                          !.pc = "loading"]

ContinueWhenSettled(x, env) ==
    IF PromiseAllResolved(x.acq) THEN StartRecording(x, env) ELSE x

\* handleExportVideo from the click to its first await.  snapshot is the
\* scenes value of the handler's closure; audioCtx is what getAudioContext
\* gives: "none", or a context that is "suspended" or "running".
HandleExportVideo(x, snapshot, provider, audioCtx, env) ==
    LET fresh == [x EXCEPT !.pc = "idle", !.alerts = 0, !.downloads = 0,
                           !.visited = <<"Idle">>, !.error = "",
                           !.recorder = "none", !.recorded = <<>>,
                           !.renderLog = <<>>,
                           !.elapsed = 0, !.frame = <<>>,
                           !.requested = [i \in DOMAIN snapshot |->
                               [id  |-> snapshot[i].id,
                                img |-> LoadedImage(snapshot[i])]]]
        begun == [fresh EXCEPT !.isExporting = TRUE,
                               !.visited = Append(@, "AcquiringAudio"),
                               !.activeExports = @ + 1,
                               !.updatedScenes = snapshot]
    IN IF Len(snapshot) = 0 THEN fresh
       ELSE IF audioCtx = "none" THEN [fresh EXCEPT !.alerts = 1]
       ELSE IF audioCtx = "suspended" THEN [begun EXCEPT !.pc = "resuming"]
       ELSE ContinueWhenSettled(BeginAcquisition(begun, provider), env)

AudioContexts == {"none", "suspended", "running"}

Environments == {"ok", "noMediaRecorder", "noCanvasContext", "noCodec"}

AcquisitionOutcomes == {"ok", "noAudio", "requestFailed", "decodeFailed"}

\* Durations (ms) of the decoded speech.
DecodedDurations == {3000}

\* Values of the rate slider (min 0.5, max 2.0).
SliderRates == {Rat(1, 1), Rat(2, 1)}

\* A click on the export button: nothing runs while the button is disabled.
ExportClick(audioCtx, env) ==
    /\ IF ExportButtonDisabled
       THEN UNCHANGED <<exportVars, frameVars, scenes>>
       ELSE SetExportMachine(
                HandleExportVideo(ExportMachine, scenes, ttsProvider,
                                  audioCtx, env))
    /\ UNCHANGED <<queueVars, callVars>>
    /\ UNCHANGED <<isAnalyzing, nextSceneId, ttsProvider, ttsRate, draggedIndex>>

\* await ctx.resume() ends.
ResumeDone(ok, env) ==
    /\ pc = "resuming"
    /\ SetExportMachine(
           IF ok THEN ContinueWhenSettled(
                          BeginAcquisition(ExportMachine, ttsProvider), env)
           ELSE EndExport([ExportMachine EXCEPT !.error = "resume"], TRUE))
    /\ UNCHANGED <<queueVars, callVars>>
    /\ UNCHANGED <<isAnalyzing, nextSceneId, ttsProvider, ttsRate, draggedIndex>>

StoreAudioBytesOnly(x, i, d) ==
    [x EXCEPT !.acq[i] = "ok",
              !.updatedScenes[i].audioData = TRUE]

\* updatedScenes[index] = { ...scene, audioData: rawBytes.buffer,
\*                          audioDuration: audioBuffer.duration }
StoreAudio(x, i, d) ==
    [x EXCEPT !.acq[i] = "ok",
              !.updatedScenes[i].audioData = TRUE,
              !.updatedScenes[i].audioDuration = <<d>>]

\* The callback of scene i ends: the speech request answered and its audio
\* decoded (ok, duration d), or no audio in the answer, or the request or the
\* decoding threw (caught by the callback's own try).
AcqSettle(i, outcome, d, env) ==
    /\ pc = "acquiring"
    /\ i \in DOMAIN acq
    /\ acq[i] = "pending"
    /\ LET x == ExportMachine
           y == IF outcome = "ok" THEN StoreAudio(x, i, d)
                ELSE [x EXCEPT !.acq[i] = "failed"]
       IN SetExportMachine(ContinueWhenSettled(y, env))
    /\ UNCHANGED <<queueVars, callVars>>
    /\ UNCHANGED <<isAnalyzing, nextSceneId, ttsProvider, ttsRate, draggedIndex>>

\* The images of recordVideo's Promise.all are loaded (or failed to load):
\* the scene loop starts.
ImagesLoaded ==
    /\ pc = "loading"
    /\ SetExportMachine(EnterScene(ExportMachine, 1))
    /\ UNCHANGED <<queueVars, callVars>>
    /\ UNCHANGED <<isAnalyzing, nextSceneId, ttsProvider, ttsRate, draggedIndex>>

\* await decodeAudioData(...) of the current scene ends: the source starts
\* and the first frame is drawn, or the error leaves recordVideo.  The bytes
\* are those decoded at acquisition, so buffer.duration is the audioDuration
\* stored with them.
DecodeDone(ok) ==
    /\ pc = "decoding"
    /\ SetExportMachine(
           IF ok THEN BeginFrames(StartSource(ExportMachine),
                                  AudioDuration(
                                      updatedScenes[recIndex].audioDuration[1],
                                      rate))
           ELSE EndExport([ExportMachine EXCEPT !.error = "decode"], TRUE))
    /\ UNCHANGED <<queueVars, callVars>>
    /\ UNCHANGED <<isAnalyzing, nextSceneId, ttsProvider, ttsRate, draggedIndex>>

\* The break of the frame loop and what follows it up to the next await: the
\* next scene is entered, or after the last one recorder.stop() is called
\* and its stop event awaited.
LeaveLoop(x, at) ==
    LET y == LogEvent(x, "loopEnd", at)
    IN IF x.recIndex < Len(x.updatedScenes)
       THEN EnterScene(y, x.recIndex + 1)
       ELSE [y EXCEPT !.pc = "stopping",
                      !.recorder = "stopped",
                      !.visited = Append(@, "Finalizing")]

SceneEndWithoutAwaitingStop ==
    /\ pc = "frames"
    /\ SetExportMachine(
           IF recIndex < Len(updatedScenes)
           THEN EnterScene(ExportMachine, recIndex + 1)
           ELSE EndExport([ExportMachine EXCEPT
                               !.recorder = "stopped",
                               !.visited = Append(@, "Finalizing"),
                               !.downloads = @ + 1], FALSE))
    /\ UNCHANGED <<queueVars, callVars>>
    /\ UNCHANGED <<isAnalyzing, nextSceneId, ttsProvider, ttsRate, draggedIndex>>

\* The timer of the frame loop fires when elapsed >= effectiveDuration and
\* the loop breaks (the time of the break is not followed).
SceneEnd ==
    /\ pc = "frames"
    /\ SetExportMachine(LeaveLoop(ExportMachine, <<>>))
    /\ UNCHANGED <<queueVars, callVars>>
    /\ UNCHANGED <<isAnalyzing, nextSceneId, ttsProvider, ttsRate, draggedIndex>>

\* The timer of the frame loop fires at elapsed e, before the end of the
\* scene: one more frame is drawn.
FrameTick(e) ==
    /\ pc = "frames"
    /\ e > elapsed
    /\ RatLt(Rat(e, 1), effectiveDuration)
    /\ SetExportMachine(DrawFrame(ExportMachine, e))
    /\ UNCHANGED <<queueVars, callVars>>
    /\ UNCHANGED <<isAnalyzing, nextSceneId, ttsProvider, ttsRate, draggedIndex>>

\* setTimeout(r, 16): the shortest time (ms) from one iteration to the next.
TimerDelay == 16

\* The times from one iteration of the frame loop to the next: the timer
\* does not fire early, and it may fire late.
TickDelays == TimerDelay .. MaxTickDelay

IterationRestartsClock(x, e) ==
    IF RatLe(x.effectiveDuration, Rat(e, 1)) THEN DrawFrame(x, 0)
    ELSE DrawFrame(x, e)

IterationBreaksOneTickLate(x, e) ==
    IF RatLe(x.effectiveDuration, Rat(x.elapsed, 1))
    THEN LeaveLoop([x EXCEPT !.elapsed = e], <<x.elapsed, e>>)
    ELSE DrawFrame(x, e)

\* One iteration of the frame loop, at elapsed e: the loop breaks when
\* elapsed >= effectiveDuration, else a frame is drawn and the timer set.
Iteration(x, e) ==
    IF RatLe(x.effectiveDuration, Rat(e, 1))
    THEN LeaveLoop([x EXCEPT !.elapsed = e], <<x.elapsed, e>>)
    ELSE DrawFrame(x, e)

\* The timer of the frame loop fires dt after the iteration before, and the
\* next iteration runs.
Poll(dt) ==
    /\ pc = "frames"
    /\ SetExportMachine(Iteration(ExportMachine, elapsed + dt))
    /\ UNCHANGED <<queueVars, callVars>>
    /\ UNCHANGED <<isAnalyzing, nextSceneId, ttsProvider, ttsRate, draggedIndex>>

\* The recorder's stop event: the blob is built and a.click() hands it over.
RecorderStopped ==
    /\ pc = "stopping"
    /\ SetExportMachine(
           EndExport([ExportMachine EXCEPT !.recorder = "finalized",
                                           !.downloads = @ + 1], FALSE))
    /\ UNCHANGED <<queueVars, callVars>>
    /\ UNCHANGED <<isAnalyzing, nextSceneId, ttsProvider, ttsRate, draggedIndex>>

ExportNext ==
    \/ \E a \in AudioContexts, env \in Environments : ExportClick(a, env)
    \/ \E ok \in BOOLEAN, env \in Environments : ResumeDone(ok, env)
    \/ \E i \in 1 .. MaxScenes, o \in AcquisitionOutcomes,
          d \in DecodedDurations, env \in Environments :
              AcqSettle(i, o, d, env)
    \/ ImagesLoaded
    \/ \E ok \in BOOLEAN : DecodeDone(ok)
    \/ SceneEnd
    \/ RecorderStopped

\* originalText lengths of the scenes of an export: one whose estimate is the
\* 2 s floor, one whose estimate (5 s) is above it.
ExportTextLengths == {8, 20}

\* The scene lists an export can find: scenes as analysis and generation
\* leave them, some with audio from an earlier export.
ExportScene(id) ==
    {[id |-> id, textLen |-> len, images |-> imgs, selectedImageIndex |-> 0,
      isGeneratingImages |-> FALSE, audioData |-> (a = "speech"),
      audioDuration |-> CASE a = "none"     -> <<>>
                          [] a = "estimate" -> <<FallbackDurationMs(len)>>
                          [] a = "speech"   -> <<3000>>] :
        len \in ExportTextLengths, imgs \in {<<>>, <<id, id>>},
        a \in {"none", "estimate", "speech"}}

ExportSceneLists ==
    {<<>>} \cup {<<s>> : s \in ExportScene(1)}
           \cup {<<s, t>> : s \in ExportScene(1), t \in ExportScene(2)}

InitExport ==
    /\ InitQueueVars
    /\ scenes \in ExportSceneLists
    /\ isAnalyzing = FALSE
    /\ nextSceneId = 3
    /\ ttsProvider \in {"gemini", "browser"}
    /\ ttsRate \in SliderRates
    /\ draggedIndex = 0
    /\ InitExportVars

SpecExport == InitExport /\ [][ExportNext]_vars

----------------------------------------------------------------------------
(* Generation: analysis, image jobs, selection, regeneration and reset *)

\* Numbers of images the four responses of a job can hold in all.
ImageCounts == {0, 2, 4}

\* originalText lengths of analysed scenes.
TextLengths == {8}

\* The scenes one analysis can return, as the lengths of their texts.
SceneTexts ==
    UNION {[1 .. n -> TextLengths] : n \in 0 .. MaxScenes}

InitGen ==
    /\ InitQueueVars
    /\ scenes = <<>>
    /\ isAnalyzing = FALSE
    /\ nextSceneId = 1
    /\ ttsProvider = "gemini"
    /\ ttsRate = Rat(1, 1)
    /\ draggedIndex = 0
    /\ InitExportVars

GenNext ==
    \/ AnalyzeStart
    \/ \E texts \in SceneTexts : AnalyzeDone(texts)
    \/ AnalyzeFail
    \/ \E j \in 1 .. MaxJobs, ok \in BOOLEAN, n \in ImageCounts :
          JobSettle(j, ok, n)
    \/ \E i \in 1 .. MaxScenes, k \in 0 .. 3 : SelectImage(i, k)
    \/ \E i \in 1 .. MaxScenes : Regenerate(i)
    \/ Reset

SpecGen == InitGen /\ [][GenNext]_vars

\* One analysis and the regenerations after it, following every
\* generateContent call of every job.
CallsNext ==
    \/ /\ jobScene = <<>>
       /\ AnalyzeStart
    \/ \E texts \in SceneTexts : AnalyzeDone(texts)
    \/ \E j \in 1 .. MaxJobs, ok \in BOOLEAN, n \in {4} :
          CallAnswered(j, ok, n)
    \/ \E i \in 1 .. MaxScenes : Regenerate(i)

SpecCalls == InitGen /\ [][CallsNext]_vars

----------------------------------------------------------------------------
(* Reordering: analyses, and drags and drops on the cards of the list      *)

\* The list can be rendered: a card reads the id of its scene, so with an
\* undefined element the render throws and the page handles no more events.
Rendered == \A i \in DOMAIN scenes : scenes[i] # Undefined

DragNext ==
    \/ Rendered /\ AnalyzeStart
    \/ Rendered /\ \E texts \in SceneTexts : AnalyzeDone(texts)
    \/ Rendered /\ \E j \in 1 .. MaxJobs, ok \in BOOLEAN, n \in {2} :
                       JobSettle(j, ok, n)
    \/ Rendered /\ \E i \in 1 .. MaxScenes : DragStart(i)
    \/ Rendered /\ \E i \in 1 .. MaxScenes : Drop(i)

SpecDrag == InitGen /\ [][DragNext]_vars

----------------------------------------------------------------------------
(* Editing during an export: one export of two scenes, while the user      *)
(* selects images and reorders the list and a generation job finishes      *)

\* The state after an analysis of two scenes: the job of the first scene
\* has brought two images, the job of the second is running.
InitEdit ==
    /\ queue = <<>>
    /\ activeCount = 1
    /\ jobScene = <<1, 2>>
    /\ started = <<1, 2>>
    /\ resolved = {1}
    /\ rejected = {}
    /\ startView = [j \in 1 .. MaxJobs |->
                        IF j = 2 THEN SceneView(<<NewScene(2, 8)>>, 2)
                        ELSE <<>>]
    /\ answered = [j \in 1 .. MaxJobs |-> 0]
    /\ scenes = <<[NewScene(1, 8) EXCEPT !.images = NewImages(1, 2)],
                  [NewScene(2, 8) EXCEPT !.isGeneratingImages = TRUE]>>
    /\ isAnalyzing = FALSE
    /\ nextSceneId = 3
    /\ ttsProvider = "gemini"
    /\ ttsRate = Rat(1, 1)
    /\ draggedIndex = 0
    /\ InitExportVars

EditNext ==
    \/ /\ pc = "idle"
       /\ \E a \in {"running"}, env \in {"ok"} : ExportClick(a, env)
    \/ \E i \in 1 .. MaxScenes, o \in {"ok", "requestFailed"},
          d \in DecodedDurations, env \in {"ok"} : AcqSettle(i, o, d, env)
    \/ ImagesLoaded
    \/ \E ok \in BOOLEAN : DecodeDone(ok)
    \/ SceneEnd
    \/ RecorderStopped
    \/ \E j \in 1 .. MaxJobs, ok \in BOOLEAN, n \in {2} : JobSettle(j, ok, n)
    \/ \E i \in 1 .. MaxScenes, k \in 0 .. 1 : SelectImage(i, k)
    \/ \E i \in 1 .. MaxScenes : DragStart(i)
    \/ \E i \in 1 .. MaxScenes : Drop(i)

SpecEdit == InitEdit /\ [][EditNext]_vars

----------------------------------------------------------------------------
(* Rendering: one export with no speech synthesis configured, frame by      *)
(* frame, over texts of every length up to MaxTextLen and rates inside and  *)
(* outside the slider's range                                               *)

\* Values of settings.ttsRate: the settings come from the store merged over
\* the defaults, so the rate is any number the store holds.
Rates == {Rat(1, 100), Rat(1, 2), Rat(1, 1), Rat(3, 2), Rat(2, 1), Rat(10, 1)}

\* Durations (ms) of the speech a scene holds from an earlier export.
StoredSpeechDurations == {300, 3000}

\* The first scene of the list: any text length, with or without images,
\* with or without speech.
RenderFirstScenes ==
    {[NewScene(1, len) EXCEPT !.images = imgs] :
        len \in 0 .. MaxTextLen, imgs \in {<<>>, <<1, 1>>}}
    \cup
    {[NewScene(1, 8) EXCEPT !.images = imgs, !.audioData = TRUE,
                            !.audioDuration = <<d>>] :
        imgs \in {<<>>, <<1, 1>>}, d \in StoredSpeechDurations}

\* The scene after it, if any: it gives the loop its nextImg.
RenderSecondScenes ==
    {[NewScene(2, 8) EXCEPT !.images = imgs] : imgs \in {<<>>, <<2, 2>>}}

InitRender ==
    /\ InitQueueVars
    /\ scenes \in {<<s>> : s \in RenderFirstScenes}
                 \cup {<<s, t>> : s \in RenderFirstScenes,
                                  t \in RenderSecondScenes}
    /\ isAnalyzing = FALSE
    /\ nextSceneId = 3
    /\ ttsProvider = "browser"
    /\ ttsRate \in Rates
    /\ draggedIndex = 0
    /\ InitExportVars

\* effectiveDuration rounded up to a whole millisecond
CeilMs(r) == (r.num + r.den - 1) \div r.den

\* The elapsed times at which the timer of the frame loop is taken to fire
\* before the end of the current scene: early, in the middle, around the
\* start of the crossfade and just before the end.
FrameTimes ==
    IF effectiveDuration = <<>> THEN {}
    ELSE LET c == CeilMs(effectiveDuration)
         IN {16, 33, c \div 2, c - 501, c - 500, c - 499, c - 250, c - 16,
             c - 1} \cap (1 .. c)

RenderNext ==
    \/ /\ pc = "idle"
       /\ \E a \in {"running"}, env \in {"ok"} : ExportClick(a, env)
    \/ ImagesLoaded
    \/ \E ok \in BOOLEAN : DecodeDone(ok)
    \/ \E e \in FrameTimes : FrameTick(e)
    \/ SceneEnd
    \/ RecorderStopped

SpecRender == InitRender /\ [][RenderNext]_vars

----------------------------------------------------------------------------
(* The frame loop against the clock: one export, iteration by iteration    *)

\* Durations (ms) of the speech a scene holds: a whole number of shortest
\* ticks, and one that is not.
LoopSpeechDurations == {48, 100}

\* A scene of the list: it holds speech, with or without images.
LoopScenes(id) ==
    {[NewScene(id, 8) EXCEPT !.images = imgs, !.audioData = TRUE,
                             !.audioDuration = <<d>>] :
        imgs \in {<<>>, <<id, id>>}, d \in LoopSpeechDurations}

InitLoop ==
    /\ InitQueueVars
    /\ scenes \in {<<s>> : s \in LoopScenes(1)}
                 \cup {<<s, t>> : s \in LoopScenes(1), t \in LoopScenes(2)}
    /\ isAnalyzing = FALSE
    /\ nextSceneId = 3
    /\ ttsProvider = "gemini"
    /\ ttsRate \in SliderRates
    /\ draggedIndex = 0
    /\ InitExportVars

LoopNext ==
    \/ /\ pc = "idle"
       /\ \E a \in AudioContexts, env \in Environments : ExportClick(a, env)
    \/ \E ok \in BOOLEAN, env \in Environments : ResumeDone(ok, env)
    \/ ImagesLoaded
    \/ \E ok \in BOOLEAN : DecodeDone(ok)
    \/ \E dt \in TickDelays : Poll(dt)
    \/ RecorderStopped

SpecLoop == InitLoop /\ [][LoopNext]_vars

\* Every external call settles and the clock advances: each awaited step of
\* the export comes.  (The scenes hold their speech, so nothing is acquired.)
LoopAwaited ==
    \/ \E ok \in BOOLEAN, env \in Environments : ResumeDone(ok, env)
    \/ ImagesLoaded
    \/ \E ok \in BOOLEAN : DecodeDone(ok)
    \/ RecorderStopped

\* The timer of the frame loop keeps firing: weak fairness of Poll.  Poll is
\* enabled exactly in the states in which frames are drawn, and of the steps
\* of LoopNext only Poll leaves such a state, so both are told by pc.
TimerFires ==
    \/ []<>(pc # "frames")
    \/ []<><<pc = "frames">>_vars

SpecLoopFair == SpecLoop /\ WF_vars(LoopAwaited) /\ TimerFires

----------------------------------------------------------------------------
(* Claims about the scene list and its generation jobs *)

\* C5: for every scene, 0 <= selectedImageIndex < max(1, len(images)) in
\* every reachable state.
C5_SelectedIndexInRange ==
    \A i \in DOMAIN scenes :
        /\ 0 <= scenes[i].selectedImageIndex
        /\ scenes[i].selectedImageIndex < Max(1, Len(scenes[i].images))

\* Jobs passed to the queue whose promise has not settled: waiting or running.
InFlight == Added \ Settled

\* C6: at most one generation job per scene is in flight (waiting in the
\* queue or running) at any time.
C6_OneJobPerScene ==
    \A i \in DOMAIN scenes :
        Cardinality({j \in InFlight : jobScene[j] = scenes[i].id}) <= 1

----------------------------------------------------------------------------
(* Claims about the export *)

\* A step of the running export itself (not a new request).
PipelineStep ==
    \/ \E ok \in BOOLEAN, env \in Environments : ResumeDone(ok, env)
    \/ \E i \in 1 .. MaxScenes, o \in AcquisitionOutcomes,
          d \in DecodedDurations, env \in Environments :
              AcqSettle(i, o, d, env)
    \/ ImagesLoaded
    \/ \E ok \in BOOLEAN : DecodeDone(ok)
    \/ SceneEnd
    \/ RecorderStopped

\* C7: a second export request while an export is in progress starts no
\* second pipeline (at most one invocation is between setting the flag and
\* its finally block), and while the flag is set the export's state changes
\* only by the steps of the running export, never by a request.
C7_NoSecondExport ==
    /\ [](activeExports <= 1)
    /\ [][isExporting => (UNCHANGED exportVars \/ PipelineStep)]_vars

\* C7 witness: an export is rendering frames of a non-empty scene list, so a
\* click on the export button now is a second request.
C7_Witness ==
    /\ isExporting
    /\ pc = "frames"
    /\ Len(scenes) > 0

\* C8: once no export invocation is running, the export-in-progress flag is
\* clear and the export button enabled, whether the last export ended in
\* success or in a failure.
C8_FlagClearedAtEnd ==
    activeExports = 0 => (~isExporting /\ ~ExportButtonDisabled)

\* C8 witness: an export that had set the flag failed in its render phase (no
\* recorder or codec, or a decoding that threw), and the flag is clear.
C8_Witness ==
    /\ visited = <<"Idle", "AcquiringAudio", "Rendering", "Failed">>
    /\ alerts = 1
    /\ ~isExporting

OrchestratorStates ==
    <<"Idle", "AcquiringAudio", "Rendering", "Finalizing", "Done">>

IsPrefix(s, t) == Len(s) <= Len(t) /\ SubSeq(t, 1, Len(s)) = s

\* C9: every export invocation goes through Idle, AcquiringAudio, Rendering,
\* Finalizing, Done in this order without skipping or revisiting a state,
\* except that it may leave to Failed; an invocation that ends without an
\* error has reached Done through Finalizing and handed exactly one file.
C9_StatesInOrder ==
    /\ \/ IsPrefix(visited, OrchestratorStates)
       \/ /\ visited[Len(visited)] = "Failed"
          /\ Len(visited) <= Len(OrchestratorStates)
          /\ IsPrefix(SubSeq(visited, 1, Len(visited) - 1), OrchestratorStates)
    /\ downloads <= 1
    /\ (pc = "done") <=> (downloads = 1)

\* C10: rendering never starts while an audio acquisition of the export is
\* pending: from the load of the images on, every callback has settled.
C10_RenderAfterAllSettled ==
    pc \in {"loading", "decoding", "frames", "stopping"} =>
        \A i \in DOMAIN acq : acq[i] \in {"skipped", "estimated", "ok", "failed"}

\* C10 witness: the first frame of the first scene is drawn after one
\* acquisition succeeded and another failed.
C10_Witness ==
    /\ pc = "frames"
    /\ recIndex = 1
    /\ \E i \in DOMAIN acq : acq[i] = "ok"
    /\ \E i \in DOMAIN acq : acq[i] = "failed"

----------------------------------------------------------------------------
(* Claims about durations and the rate *)

\* The estimate the specification gives for a text of len characters:
\* max(2.0, len * 0.25) seconds, in ms.
EstimatedDurationMs(len) == Max(2000, 250 * len)

\* clamp(r, 0.1, 4.0) as the specification states it.
ClampedRate(r) ==
    IF RatLt(r, Rat(1, 10)) THEN Rat(1, 10)
    ELSE IF RatLt(Rat(4, 1), r) THEN Rat(4, 1)
    ELSE r

\* C11: a failed audio acquisition of a scene does not abort the export (the
\* export goes on to its render phase and the error it may end with is never
\* one of an acquisition), and the frame loop of that scene runs for the
\* estimated duration max(2.0, charCount * 0.25) s divided by the clamped
\* rate.
C11_FailedSceneUsesEstimate ==
    /\ error \in {"", "resume", "noMediaRecorder", "noCodec", "decode"}
    /\ (pc = "frames" /\ acq[recIndex] = "failed") =>
           effectiveDuration =
               RatDiv(Rat(EstimatedDurationMs(updatedScenes[recIndex].textLen), 1),
                      ClampedRate(ttsRate))

----------------------------------------------------------------------------
(* Claims about the recorder *)

\* A step in which recordVideo is called in a runtime that supports none of
\* the three mime types.
NoCodecStep ==
    /\ \/ \E a \in AudioContexts : ExportClick(a, "noCodec")
       \/ \E ok \in BOOLEAN : ResumeDone(ok, "noCodec")
       \/ \E i \in 1 .. MaxScenes, o \in AcquisitionOutcomes,
             d \in DecodedDurations : AcqSettle(i, o, d, "noCodec")
    /\ "Rendering" \in Range(visited')

\* C12: when the runtime supports none of the container/codec candidates,
\* the export ends in Failed with one error message shown to the user, no
\* frame of any scene is rendered, no recorder is started and no file is
\* handed over.
C12_NoCodecFails ==
    [][NoCodecStep =>
          /\ pc' = "failed"
          /\ visited'[Len(visited')] = "Failed"
          /\ alerts' = 1
          /\ recorded' = <<>>
          /\ frame' = <<>>
          /\ recorder' = "none"
          /\ downloads' = 0
          /\ ~isExporting']_vars

\* C12 witness: an export of two scenes ended on the missing codec.
C12_Witness ==
    /\ error = "noCodec"
    /\ pc = "failed"
    /\ alerts = 1
    /\ Len(requested) = 2

\* C13: the file is handed over only after the recorder was started before
\* the first frame, stopped after the frame loop of the last scene, and its
\* stop event (the end of its asynchronous finalization) has come; an export
\* that fails hands over no file.
C13_FileOnlyAfterFinalization ==
    /\ recorded # <<>> => recorder # "none"
    /\ pc \in {"decoding", "frames"} => recorder = "recording"
    /\ recorder \in {"stopped", "finalized"} =>
           /\ Len(recorded) = Len(requested)
           /\ pc \in {"stopping", "done"}
    /\ downloads <= 1
    /\ downloads = 1 => (recorder = "finalized" /\ pc = "done")
    /\ (pc = "failed" \/ error # "") => downloads = 0

\* C13 witness: an export of two scenes handed its file over.
C13_Witness ==
    /\ downloads = 1
    /\ recorder = "finalized"
    /\ Len(recorded) = 2

----------------------------------------------------------------------------
(* Claims about the scene list during an export *)

\* C14: the scenes are rendered in the order the scene list had when the
\* export was requested, each with the image it then had selected: the
\* scenes whose frame loop has been entered are the first scenes of the
\* list of the request, and all of it once the file is handed over,
\* whatever reorder, job result or image selection came after the request.
C14_RenderOrderIsRequestOrder ==
    /\ IsPrefix(recorded, requested)
    /\ downloads = 1 => recorded = requested

\* C14 witness: the file of an export of two scenes is handed over while the
\* list is in another order than at the request and its second scene has
\* got images the request did not have.
C14_Witness ==
    /\ downloads = 1
    /\ Len(recorded) = 2
    /\ [i \in DOMAIN scenes |-> scenes[i].id] #
           [i \in DOMAIN requested |-> requested[i].id]
    /\ \E i \in DOMAIN scenes, k \in DOMAIN requested :
           /\ scenes[i].id = requested[k].id
           /\ LoadedImage(scenes[i]) # requested[k].img

----------------------------------------------------------------------------
(* Claims about the audio fields *)

AudioSetTogether(ss) ==
    \A i \in DOMAIN ss : ss[i].audioData <=> (ss[i].audioDuration # <<>>)

\* C15: for every scene, audioData and audioDuration are both set or both
\* unset, and every step keeps it so: an acquisition through the synthesis
\* path, through the estimated-duration path, and a failed acquisition.
C15_AudioSetTogether ==
    [][(AudioSetTogether(scenes) /\ AudioSetTogether(updatedScenes))
          => (AudioSetTogether(scenes') /\ AudioSetTogether(updatedScenes'))]_vars

BufferHasDuration(ss) ==
    \A i \in DOMAIN ss :
        /\ ss[i].audioData => ss[i].audioDuration # <<>>
        /\ (~ss[i].audioData /\ ss[i].audioDuration # <<>>) =>
               ss[i].audioDuration = <<EstimatedDurationMs(ss[i].textLen)>>

\* C15 as amended: for every scene, if audioData is set then audioDuration is
\* set (the synthesis path sets both, a failed acquisition neither); an
\* audioDuration without audioData is the estimate of the scene's text, set
\* by the estimated-duration path.
C15_BufferHasDuration ==
    BufferHasDuration(scenes) /\ BufferHasDuration(updatedScenes)

\* C15 witness: the first frame is drawn after one scene got audio bytes and
\* their duration from the synthesis path and the acquisition of another
\* failed and left it with neither.
C15_Witness ==
    /\ pc = "frames"
    /\ \E i \in DOMAIN acq :
           /\ acq[i] = "ok"
           /\ scenes[i].audioData
           /\ scenes[i].audioDuration \in {<<d>> : d \in DecodedDurations}
    /\ \E i \in DOMAIN acq :
           /\ acq[i] = "failed"
           /\ ~scenes[i].audioData
           /\ scenes[i].audioDuration = <<>>

----------------------------------------------------------------------------
(* Claims about the generating flag *)

\* C16: in every reachable state, a scene's isGeneratingImages is true only
\* if a generation job for that scene is running (started and not settled),
\* also after an export has written its scene snapshot back.
C16_GeneratingOnlyWhileRunning ==
    \A i \in DOMAIN scenes :
        scenes[i].isGeneratingImages =>
            \E j \in Running : jobScene[j] = scenes[i].id

----------------------------------------------------------------------------
(* Claims about the render duration, the rate and the compositor *)

\* The scene whose frame loop runs.
CurrentScene == updatedScenes[recIndex]

\* C17: with no synthesis configured, a scene without audio bytes is
\* rendered for max(2.0, charCount * 0.25) s divided by the clamped rate:
\* for every text length the duration of its frame loop is the reference
\* max(2000, 250 * L) ms over the rate, which is 2000 ms for 8 characters at
\* rate 1.0 and 1000 ms at rate 2.0.
C17_EstimatedDuration ==
    (pc = "frames" /\ acq[recIndex] = "estimated") =>
        /\ effectiveDuration =
               RatDiv(Rat(EstimatedDurationMs(CurrentScene.textLen), 1),
                      ClampedRate(ttsRate))
        /\ (CurrentScene.textLen = 8 /\ ttsRate = Rat(1, 1)) =>
               effectiveDuration = Rat(2000, 1)
        /\ (CurrentScene.textLen = 8 /\ ttsRate = Rat(2, 1)) =>
               effectiveDuration = Rat(1000, 1)

\* C17 witness: the frame loop of an estimated scene of 8 characters runs at
\* rate 2.0 for 1000 ms.
C17_Witness ==
    /\ pc = "frames"
    /\ acq[recIndex] = "estimated"
    /\ CurrentScene.textLen = 8
    /\ ttsRate = Rat(2, 1)
    /\ effectiveDuration = Rat(1000, 1)

\* The duration (ms) that is divided by the rate: that of the decoded speech
\* for a scene with audio bytes, else the stored audioDuration.
BaseDurationMs(scene) ==
    IF scene.audioDuration = <<>> THEN 2000 ELSE scene.audioDuration[1]

\* C18: the rate used for a scene's audio and duration is the configured
\* rate clamped to [0.1, 4.0]: 10.0 gives 4.0, 0.01 gives 0.1, a rate inside
\* the range is used unchanged, and the duration of the frame loop is the
\* scene's duration divided by that rate.
C18_RateClamped ==
    pc \in {"decoding", "frames"} =>
        /\ ttsRate = Rat(10, 1) => rate = Rat(4, 1)
        /\ ttsRate = Rat(1, 100) => rate = Rat(1, 10)
        /\ (RatLe(Rat(1, 10), ttsRate) /\ RatLe(ttsRate, Rat(4, 1))) =>
               rate = ttsRate
        /\ pc = "frames" =>
               RatMul(effectiveDuration, rate) =
                   Rat(BaseDurationMs(CurrentScene), 1)

\* C18 witness: a frame loop runs with the configured rate 10.0.
C18_Witness ==
    /\ pc = "frames"
    /\ ttsRate = Rat(10, 1)
    /\ rate = Rat(4, 1)
    /\ frame # <<>>

\* 1 + 0.08 * e / total, for total = n / d.
ReferenceScale(e, total) ==
    Rat(100 * total.num + 8 * e * total.den, 100 * total.num)

\* C19: the zoom scale applied to every frame is 1.0 + 0.08 * p with
\* p = elapsed / total, whatever frames were drawn before it (the context
\* is back in its initial state after each frame); the scale is 1.0 at
\* p = 0 and 1.08 at p = 1 and does not decrease as elapsed grows.
C19_ZoomScale ==
    (pc = "frames" /\ frame # <<>>) =>
        /\ frame.scale = ReferenceScale(frame.elapsed, effectiveDuration)
        /\ canvas = NewCanvas
        /\ frame.elapsed = 0 => frame.scale = Rat(1, 1)
        /\ KenBurnsScale(0, effectiveDuration) = Rat(1, 1)
        /\ effectiveDuration.den = 1 =>
               KenBurnsScale(effectiveDuration.num, effectiveDuration) =
                   Rat(108, 100)
        /\ \A e1 \in FrameTimes \cup {0}, e2 \in FrameTimes :
               e1 <= e2 => RatLe(KenBurnsScale(e1, effectiveDuration),
                                 KenBurnsScale(e2, effectiveDuration))

\* C19 witness: the frame one millisecond before the end of a scene of
\* 2000 ms is drawn after an earlier frame of the scene, with a scale
\* above 1.
C19_Witness ==
    /\ pc = "frames"
    /\ frame # <<>>
    /\ effectiveDuration = Rat(2000, 1)
    /\ frame.elapsed = 1999
    /\ frame.scale = Rat(107996, 100000)

\* 1 - (total - e) / 500, for total = n / d.
ReferenceAlpha(e, total) ==
    Rat(500 * total.den - (total.num - e * total.den), 500 * total.den)

\* C20: for a scene that has a next image, the next image is not drawn
\* (opacity 0) in a frame with elapsed <= total - 500 ms; in a frame of the
\* last 500 ms it is drawn with opacity 1 - remaining / 500, which rises
\* linearly from 0 as the remaining time shrinks from 500 ms and is exactly
\* 1 at elapsed = total; so also for a total below 500 ms.
C20_Crossfade ==
    (/\ pc = "frames"
     /\ frame # <<>>
     /\ NextImage(updatedScenes, recIndex) # <<>>) =>
        LET total     == effectiveDuration
            remaining == RatSub(total, Rat(frame.elapsed, 1))
        IN /\ RatLe(Rat(500, 1), remaining) =>
                  (frame.next = <<>> /\ frame.nextAlpha = Rat(0, 1))
           /\ RatLt(remaining, Rat(500, 1)) =>
                  /\ frame.next = NextImage(updatedScenes, recIndex)
                  /\ frame.nextAlpha = ReferenceAlpha(frame.elapsed, total)
                  /\ RatLt(Rat(0, 1), frame.nextAlpha)
                  /\ RatLt(frame.nextAlpha, Rat(1, 1))
           /\ total.den = 1 => CrossfadeAlpha(total.num, total) = Rat(1, 1)
           /\ (total.den = 1 /\ total.num >= 500) =>
                  CrossfadeAlpha(total.num - 500, total) = Rat(0, 1)

\* C20 witness: a scene of 300 ms (stored speech at rate 1.0) with a next
\* image; the frame at 50 ms draws the next image at opacity 1 - 250/500.
C20_Witness ==
    /\ pc = "frames"
    /\ frame # <<>>
    /\ effectiveDuration = Rat(300, 1)
    /\ frame.elapsed = 50
    /\ frame.next # <<>>
    /\ frame.nextAlpha = Rat(1, 2)

----------------------------------------------------------------------------
(* More claims about the queue *)

\* C21: each time a running job settles, resolved or rejected, exactly one
\* waiting job is started if the waiting list is not empty (the one at its
\* head, which leaves the list), and none if it is empty; a settlement never
\* starts two jobs.
C21_SettlementStartsOne ==
    [][Settled' # Settled =>
          IF queue # <<>>
          THEN /\ started' = Append(started, Head(queue))
               /\ queue' = Tail(queue)
          ELSE /\ started' = started
               /\ queue' = queue]_vars

\* C21 witness: of five jobs, one has settled (which started the fourth)
\* and the fifth still waits.
C21_Witness ==
    /\ Cardinality(Settled) = 1
    /\ Len(started) = maxConcurrent + 1
    /\ Len(queue) = 1

----------------------------------------------------------------------------
(* The calls to the image service *)

RECURSIVE OutstandingUpTo(_)
\* The generateContent calls of the jobs 1 .. k that are not yet answered.
OutstandingUpTo(k) ==
    IF k = 0 THEN 0 ELSE OutstandingOf(k) + OutstandingUpTo(k - 1)

----------------------------------------------------------------------------
(* Who writes the scenes *)

\* The ids of the scenes of a list.
Ids(ss) == {ss[i].id : i \in DOMAIN ss}

\* The generation fields of the scene with the given id.
GenerationFields(ss, id) ==
    LET i == CHOOSE k \in DOMAIN ss : ss[k].id = id
    IN <<ss[i].isGeneratingImages, ss[i].images>>

\* The jobs that start or end in the step.
JobsActing == (Range(started') \ Range(started)) \cup (Settled' \ Settled)

\* C23: the generation fields of a scene (isGeneratingImages, images) are
\* written only by a job of that scene, when it starts or ends: no other
\* step changes them, and in particular the export's write-back of the audio
\* results neither changes nor reverts them.
C23_OnlyOwnJobWrites ==
    [][\A id \in Ids(scenes) \cap Ids(scenes') :
          GenerationFields(scenes', id) # GenerationFields(scenes, id)
              => \E j \in JobsActing : jobScene'[j] = id]_vars

\* C24: a step in which a job ends changes only scenes that have the id of
\* a job acting in the step (the job that ends, and the job its settlement
\* starts): every other scene, the number of scenes and their order stay as
\* they were, and when no scene has such an id (the list was reset or
\* analysed again) the list is unchanged.
C24_JobUpdatesOwnSceneOnly ==
    [][Settled' # Settled =>
          /\ Len(scenes') = Len(scenes)
          /\ \A i \in DOMAIN scenes :
                 /\ scenes'[i].id = scenes[i].id
                 /\ scenes'[i] # scenes[i]
                        => \E j \in JobsActing : jobScene[j] = scenes[i].id
          /\ (\A j \in JobsActing : jobScene[j] \notin Ids(scenes))
                 => scenes' = scenes]_vars

\* C24 witness: the job of the first scene has brought images while the
\* second scene is still generating without any, and a job of a scene that
\* is no longer in the list has ended too.
C24_Witness ==
    /\ Len(scenes) = 2
    /\ scenes[1].images # <<>> /\ ~scenes[1].isGeneratingImages
    /\ scenes[2].images = <<>> /\ scenes[2].isGeneratingImages
    /\ \E j \in Settled : jobScene[j] \notin Ids(scenes)

----------------------------------------------------------------------------
(* A failed job *)

\* The scene with the given id, in a list that has one.
SceneOf(ss, id) == ss[CHOOSE k \in DOMAIN ss : ss[k].id = id]

\* Job j ends in the step by its catch branch.
JobFails(j) == \E n \in ImageCounts : JobSettle(j, FALSE, n)

\* C25: when a generation job fails, its scene's isGeneratingImages flag is
\* cleared and the scene's images and selectedImageIndex are what they were
\* when the job started; the regenerate button of the scene is enabled then,
\* and a regeneration request enqueues a new job.
C25_FailureKeepsImages ==
    [][/\ \A j \in Running :
              JobFails(j) /\ jobScene[j] \in Ids(scenes)
                  => /\ ~SceneOf(scenes', jobScene[j]).isGeneratingImages
                     /\ ~RegenerateDisabled(SceneOf(scenes', jobScene[j]))
                     /\ SceneView(scenes', jobScene[j]) = startView[j]
       /\ \A i \in DOMAIN scenes :
              Regenerate(i) => /\ Len(jobScene') = Len(jobScene) + 1
                               /\ jobScene'[Len(jobScene')] = scenes[i].id]_vars

----------------------------------------------------------------------------
(* The order of the render loop *)

\* What the log of a strictly sequential rendering of the scenes ss holds,
\* from position i on: for each scene in turn the start of its audio source
\* (if it has audio bytes), its first frame, the end of its frame loop.
RECURSIVE SequentialLog(_, _)
SequentialLog(ss, i) ==
    IF i > Len(ss) THEN <<>>
    ELSE (IF ss[i].audioData THEN <<[ev |-> "audioStart", scene |-> i]>>
          ELSE <<>>)
         \o <<[ev |-> "firstFrame", scene |-> i],
              [ev |-> "loopEnd", scene |-> i]>>
         \o SequentialLog(ss, i + 1)

\* The log without its times.
LoggedEvents ==
    [k \in DOMAIN renderLog |->
        [ev |-> renderLog[k].ev, scene |-> renderLog[k].scene]]

\* The frame loops that have begun and not ended.
ActiveLoops ==
    Cardinality({k \in DOMAIN renderLog : renderLog[k].ev = "firstFrame"})
    - Cardinality({k \in DOMAIN renderLog : renderLog[k].ev = "loopEnd"})

\* C26: rendering is strictly sequential.  At most one frame loop is active
\* at any time (and one is exactly while frames are drawn), the loops run in
\* the order of the scenes, and the audio source of a scene with audio is
\* started exactly once, after the end of the previous scene's loop and
\* before the scene's own first frame.
C26_SequentialRendering ==
    /\ ActiveLoops \in {0, 1}
    /\ ActiveLoops = 1 <=> pc = "frames"
    /\ updatedScenes # <<>>
          => IsPrefix(LoggedEvents, SequentialLog(updatedScenes, 1))
    /\ pc = "frames"
          => renderLog[Len(renderLog)] =
                 [ev |-> "firstFrame", scene |-> recIndex, at |-> <<>>]

\* C26 witness: both scenes have audio, both loops have run to their end.
C26_Witness ==
    /\ pc = "stopping"
    /\ Len(renderLog) = 6
    /\ renderLog[4].ev = "audioStart" /\ renderLog[4].scene = 2

----------------------------------------------------------------------------
(* The frame loop against the clock *)

\* C27: when every external call settles and the clock advances, every
\* export that has started (isExporting set) eventually ends in Done or
\* Failed with the exporting flag cleared, and the frame loop of each scene
\* ends.
C27_ExportTerminates ==
    /\ isExporting ~> (~isExporting /\ pc \in {"done", "failed"})
    /\ \A i \in 1 .. MaxScenes :
           (pc = "frames" /\ recIndex = i) ~> ~(pc = "frames" /\ recIndex = i)

\* C27 witness: an export has ended in Done after the frame loops of its two
\* scenes.
C27_Witness ==
    /\ pc = "done"
    /\ ~isExporting
    /\ downloads = 1
    /\ Len(renderLog) = 6


\* The frame loops that have ended, as positions of the log.
EndedLoops == {k \in DOMAIN renderLog : renderLog[k].ev = "loopEnd"}

\* The duration (ms) of the decoded audio of the scene of log entry k.
DecodedDuration(k) == scenes[renderLog[k].scene].audioDuration[1]

\* C28: at rate 1.0 the frame loop of a scene with decoded audio of duration
\* D ends at the first iteration whose elapsed time is at least D: the
\* iteration before it was at an elapsed time below D, so the loop lasts at
\* least D and less than D plus one tick interval.
C28_LoopEndsWithinOneTick ==
    ttsRate = Rat(1, 1) =>
        \A k \in EndedLoops :
            LET before == renderLog[k].at[1]
                end    == renderLog[k].at[2]
                D      == DecodedDuration(k)
            IN /\ end >= D
               /\ before < D
               /\ end - before \in TickDelays
               /\ end < D + MaxTickDelay

\* C28 witness: at rate 1.0 the loop of the second scene has ended at an
\* elapsed time above the duration of its audio, after the loop of the first
\* ended exactly at the duration of its audio.
C28_Witness ==
    /\ ttsRate = Rat(1, 1)
    /\ pc = "stopping"
    /\ Len(renderLog) = 6
    /\ renderLog[3].at[2] = DecodedDuration(3)
    /\ renderLog[6].at[2] > DecodedDuration(6)

----------------------------------------------------------------------------
(* Reordering *)

\* The list without its element at position i.
Without(ss, i) == SubSeq(ss, 1, i - 1) \o SubSeq(ss, i + 1, Len(ss))

\* C29: a drop of the dragged scene (index d) onto the card at index t, with
\* d # t, gives a permutation of the same scenes in which the dragged scene
\* is at index t and the other scenes keep their relative order, nothing
\* being lost, duplicated or changed; a drop with no dragged scene or with
\* d = t leaves the list unchanged.
C29_DropReorders ==
    [][\A t \in DOMAIN scenes :
          Drop(t) =>
              IF draggedIndex = 0 \/ draggedIndex = t
              THEN scenes' = scenes
              ELSE /\ Len(scenes') = Len(scenes)
                   /\ draggedIndex \in DOMAIN scenes
                   /\ scenes'[t] = scenes[draggedIndex]
                   /\ Without(scenes', t) = Without(scenes, draggedIndex)]_vars

----------------------------------------------------------------------------
(* The queue keeps its slots busy *)

\* C30: the queue is work-conserving.  After every add call and every
\* settlement callback the waiting list is non-empty only if exactly
\* maxConcurrent jobs are running; the running count is never negative and
\* is the number of jobs started and not yet settled; and add never refuses
\* a job: every job handed to it is either waiting or has been started.
C30_WorkConserving ==
    /\ queue # <<>> => RunningCount = maxConcurrent
    /\ activeCount >= 0
    /\ activeCount = Cardinality(Running)
    /\ Range(queue) \cup Range(started) = Added
    /\ Range(queue) \cap Range(started) = {}

\* C30 witness: more jobs than slots were added, two of them have settled,
\* and the waiting list has run empty with a slot free.
C30_Witness ==
    /\ Len(jobScene) > maxConcurrent
    /\ Cardinality(Settled) >= 2
    /\ queue = <<>>
    /\ activeCount < maxConcurrent

====
